---- MODULE Spec2Model ----
(***************************************************************************)
(* Model of ctx-mcp: the command-line tool packages/cli/ctx.py and the     *)
(* protocol server packages/python-mcp/src/context_mcp/server.py.          *)
(*                                                                         *)
(* A text is a sequence of tokens.  A token is one of the line terminators *)
(* "\n" and "\r", or a chunk of characters that holds no line terminator   *)
(* (a single character is such a chunk).  Python's str operations used by  *)
(* the program (strip, splitlines, count, slicing, join) are modelled on   *)
(* these sequences.  The platform is POSIX: os.linesep is "\n".            *)
(***************************************************************************)
EXTENDS Integers, Sequences, FiniteSets, TLC

VARIABLES
    fs,      \* the fixed context paths: path -> "absent" | "dir" | file content (a text)
    work,    \* the other entries of the working directory: set of [path, isdir]
    obs,     \* the files of .agent_memory/observations, in directory-listing order
    now,     \* the wall clock, in seconds after the start of the current minute
    git,     \* what the external git tool does in the working directory
    result,  \* what the last operation printed, returned or raised
    before   \* whether the operation before the last one was an init: [op, fromEmpty]

vars == <<fs, work, obs, now, git, result, before>>

----------------------------------------------------------------------------
(* Bounds of the model. *)

MaxTime == 1
MaxFiles == 2
MaxEntries == 3
MaxFsDepth == 3

----------------------------------------------------------------------------
(* Texts. *)

Range(s) == {s[i] : i \in 1..Len(s)}

Min(a, b) == IF a < b THEN a ELSE b

Max(a, b) == IF a > b THEN a ELSE b

LF == "\n"

CR == "\r"

\* str.strip() removes these from both ends (the ones the texts here can hold).
Whitespace == {LF, CR, " ", "\t", "    "}

RECURSIVE LStrip(_)
LStrip(s) ==
    IF s = <<>> THEN <<>>
    ELSE IF Head(s) \in Whitespace THEN LStrip(Tail(s))
    ELSE s

RECURSIVE RStrip(_)
RStrip(s) ==
    IF s = <<>> THEN <<>>
    ELSE IF s[Len(s)] \in Whitespace THEN RStrip(SubSeq(s, 1, Len(s) - 1))
    ELSE s

Strip(s) == RStrip(LStrip(s))

\* sep.join(parts)
RECURSIVE Join(_, _)
Join(sep, parts) ==
    IF parts = <<>> THEN <<>>
    ELSE IF Len(parts) = 1 THEN parts[1]
    ELSE parts[1] \o sep \o Join(sep, Tail(parts))

\* s.count("\n")
CountLF(s) == Cardinality({i \in 1..Len(s) : s[i] = LF})

\* The line boundaries of a text: "\n", "\r\n" and a lone "\r".  A boundary
\* starts at a "\r", or at a "\n" that does not follow a "\r".
BreakStarts(s) ==
    {i \in 1..Len(s) : s[i] = CR \/ (s[i] = LF /\ (i = 1 \/ s[i - 1] # CR))}

BreakWidth(s, i) == IF s[i] = CR /\ i < Len(s) /\ s[i + 1] = LF THEN 2 ELSE 1

\* The k-th smallest member of a set of numbers.
Nth(S, k) == CHOOSE i \in S : Cardinality({j \in S : j <= i}) = k

\* The stretches between the boundaries, the one after the last included.
Segments(s) ==
    LET B == BreakStarts(s)
        n == Cardinality(B)
        from(k) == IF k = 1 THEN 1 ELSE Nth(B, k - 1) + BreakWidth(s, Nth(B, k - 1))
        upto(k) == IF k = n + 1 THEN Len(s) ELSE Nth(B, k) - 1
    IN [k \in 1..(n + 1) |-> SubSeq(s, from(k), upto(k))]

\* Reading in text mode (open(..., newline=None)): universal newlines, "\r\n"
\* and a lone "\r" both become "\n".
UniversalNewlines(s) == Join(<<LF>>, Segments(s))

\* Writing in text mode on POSIX: "\n" is written as os.linesep, which is "\n".
TranslateOnWrite(s) == s

\* str.splitlines(): split at "\n", "\r\n" and "\r"; no empty last line.
SplitLines(s) ==
    LET segs == Segments(s)
    IN IF segs[Len(segs)] = <<>> THEN SubSeq(segs, 1, Len(segs) - 1) ELSE segs

\* lst[:k] for any integer k
SliceTo(lst, k) ==
    IF k >= 0 THEN SubSeq(lst, 1, Min(k, Len(lst)))
    ELSE SubSeq(lst, 1, Max(Len(lst) + k, 0))

\* lst[-k:] for any integer k (lst[-0:] is lst[0:], the whole list)
SliceLast(lst, k) ==
    IF k > 0 THEN SubSeq(lst, Max(Len(lst) - k, 0) + 1, Len(lst))
    ELSE SubSeq(lst, Min(0 - k, Len(lst)) + 1, Len(lst))

\* Whether q occurs in s as a contiguous run.
Contains(s, q) ==
    \E i \in 1..(Len(s) - Len(q) + 1) : SubSeq(s, i, i + Len(q) - 1) = q

----------------------------------------------------------------------------
(* Configuration and templates. *)

AI_DIR == ".ai"

SKILLS_DIR == ".ai/skills"

MEMORY_DIR == ".agent_memory"

OBSERVATIONS_DIR == ".agent_memory/observations"

CACHE_DIR == ".agent_memory/context_cache"

SKILLS_FILE == ".ai/skills/coding-standards.md"

GOALS_FILE == ".agent_memory/goals.md"

GITIGNORE == ".agent_memory/.gitignore"

STATE_FILE == ".agent_memory/state.md"

Paths ==
    {AI_DIR, SKILLS_DIR, MEMORY_DIR, OBSERVATIONS_DIR, CACHE_DIR,
     SKILLS_FILE, GOALS_FILE, GITIGNORE, STATE_FILE}

Root == "."

Parent(p) ==
    CASE p = SKILLS_DIR -> AI_DIR
      [] p = SKILLS_FILE -> SKILLS_DIR
      [] p \in {OBSERVATIONS_DIR, CACHE_DIR, GOALS_FILE, GITIGNORE, STATE_FILE} -> MEMORY_DIR
      [] OTHER -> Root

\* (the backquotes around the four case names are left out)
CODING_STANDARDS_TEMPLATE ==
    <<"# Coding Standards", LF, LF, "## General Principles", LF,
      "- **Clarity over cleverness**: Write code that is easy to understand.", LF,
      "- **Consistency**: Follow the existing style of the codebase.", LF,
      "- **DRY (Don't Repeat Yourself)**: Extract common logic.", LF, LF,
      "## Naming Conventions", LF, "- Variables: camelCase", LF,
      "- Functions: camelCase", LF, "- Classes: PascalCase", LF,
      "- Constants: UPPER_CASE", LF, LF, "## Error Handling", LF,
      "- Always handle errors explicitly.", LF,
      "- Use custom error classes for domain-specific errors.", LF>>

GOALS_TEMPLATE ==
    <<"# Current Goals", LF, LF, "## Main Objective", LF,
      "Describe the main objective here.", LF, LF, "## Tasks", LF,
      "- [ ] Task 1", LF, "- [ ] Task 2", LF>>

GITIGNORE_TEXT == <<"*", LF, "!.gitignore", LF, "!goals.md", LF>>

NO_GOALS == <<"No goals defined.">>

NOT_A_REPO == <<"Not a git repository.">>

STATE_TEMPLATE(timestamp, goals, changes, structure) ==
    <<"# Workspace State", LF, "Updated: ">> \o timestamp \o <<LF, LF>>
    \o <<"## Current Goals", LF>> \o goals \o <<LF, LF>>
    \o <<"## Recent Changes", LF>> \o changes \o <<LF, LF>>
    \o <<"## Directory Structure (Depth: 2)", LF>> \o structure \o <<LF>>

----------------------------------------------------------------------------
(* The file system under the fixed context paths. *)

\* A node of the file system: nothing, a directory, or a file and its content.
Absent == [kind |-> "absent", content |-> <<>>]

DirNode == [kind |-> "dir", content |-> <<>>]

FileNode(content) == [kind |-> "file", content |-> content]

\* Path.is_dir()
IsDir(f, p) == IF p = Root THEN TRUE ELSE f[p].kind = "dir"

\* Path.is_file()
IsFile(f, p) == IF p = Root THEN FALSE ELSE f[p].kind = "file"

\* Path.exists()
Exists(f, p) == IF p = Root THEN TRUE ELSE f[p].kind # "absent"

EmptyFs == [p \in Paths |-> Absent]

\* Path.mkdir(parents=True, exist_ok=True): [ok, fs]; not ok is FileExistsError
\* (the path is a file) or NotADirectoryError (an ancestor is a file).
RECURSIVE Mkdir(_, _)
Mkdir(f, p) ==
    IF IsDir(f, p) THEN [ok |-> TRUE, fs |-> f]
    ELSE IF Exists(f, p) THEN [ok |-> FALSE, fs |-> f]
    ELSE LET up == Mkdir(f, Parent(p))
         IN IF up.ok
            THEN [ok |-> TRUE, fs |-> [up.fs EXCEPT ![p] = DirNode]]
            ELSE up

\* Whether Path.write_text can open the path for writing; otherwise it raises
\* FileNotFoundError, NotADirectoryError or IsADirectoryError.
CanWrite(f, p) == IsDir(f, Parent(p)) /\ ~IsDir(f, p)

\* Path.write_text(content)
WriteText(f, p, content) == [f EXCEPT ![p] = FileNode(TranslateOnWrite(content))]

\* Path.read_text() of a file
ReadText(f, p) == UniversalNewlines(f[p].content)

----------------------------------------------------------------------------
(* The working directory as the tree renderer sees it. *)

\* Entry names that occur in the model, in the order sorted() puts them
\* (code-point order).
NameOrder == <<".agent_memory", ".ai", ".git", "a.py", "build", "src">>

\* The names a user's own entries take.
WorkNames == {".git", "a.py", "build", "src"}

\* e.startswith('.')
StartsWithDotMutant(name) == FALSE
StartsWithDot(name) == name \in {".agent_memory", ".ai", ".git"}

NameRank(name) == CHOOSE i \in 1..Len(NameOrder) : NameOrder[i] = name

\* os.listdir(dir_path); dir_path is the sequence of names below ".".
\* Every directory can be listed (no PermissionError arises).
ListDir(f, w, dir_path) ==
    {e.path[Len(e.path)] : e \in {x \in w : /\ Len(x.path) = Len(dir_path) + 1
                                             /\ SubSeq(x.path, 1, Len(dir_path)) = dir_path}}
    \cup (IF dir_path = <<>>
          THEN {n \in {AI_DIR, MEMORY_DIR} : Exists(f, n)}
          ELSE {})

\* os.path.isdir(full_path)
PathIsDir(f, w, full_path) ==
    \/ [path |-> full_path, isdir |-> TRUE] \in w
    \/ Len(full_path) = 1 /\ full_path[1] \in {AI_DIR, MEMORY_DIR} /\ IsDir(f, full_path[1])

\* The sort key (not isdir, name) as one number.
SortKey(f, w, dir_path, name) ==
    (IF PathIsDir(f, w, Append(dir_path, name)) THEN 0 ELSE Len(NameOrder)) + NameRank(name)

\* sorted(names, key=...)
RECURSIVE Sorted(_, _, _, _)
Sorted(f, w, dir_path, names) ==
    IF names = {} THEN <<>>
    ELSE LET first == CHOOSE n \in names :
                        \A m \in names : SortKey(f, w, dir_path, n) <= SortKey(f, w, dir_path, m)
         IN <<first>> \o Sorted(f, w, dir_path, names \ {first})

\* [e for e in entries if not e.startswith('.')]
RECURSIVE SkipHidden(_)
SkipHidden(entries) ==
    IF entries = <<>> THEN <<>>
    ELSE IF StartsWithDot(Head(entries)) THEN SkipHidden(Tail(entries))
    ELSE <<Head(entries)>> \o SkipHidden(Tail(entries))

\* The connectors and extensions, in ASCII: "|-- " stands for the tee, "L-- "
\* for the corner, "|   " for the vertical bar.
ConnectorOf(is_last) == IF is_last THEN "L-- " ELSE "|-- "

ExtensionOf(is_last) == IF is_last THEN "    " ELSE "|   "

NOISY_CLI == {"node_modules", "venv", "__pycache__", "dist", "build"}

NOISY_MCP == {"node_modules", "venv", "__pycache__", "dist", "build", ".git"}

\* Whether the walk goes on at this depth (the code returns [] when depth >= max_depth).
DepthLeftMutant(depth, max_depth) == depth <= max_depth
DepthLeft(depth, max_depth) == ~(depth >= max_depth)

\* Whether a directory is shown collapsed ("name/ ...") and not descended into.
CollapsedMutant(noisy, entry) == FALSE
Collapsed(noisy, entry) == entry \in noisy

\* A line of the tree: the text is prefix + connector + entry + suffix;
\* full_path is the entry the line names.
RECURSIVE TreeWalk(_, _, _, _, _, _, _)
RECURSIVE TreeLoop(_, _, _, _, _, _, _, _, _)
TreeLoop(noisy, f, w, dir_path, prefix, depth, max_depth, entries, i) ==
    IF i > Len(entries) THEN <<>>
    ELSE LET entry == entries[i]
             is_last == (i = Len(entries))
             connector == ConnectorOf(is_last)
             full_path == Append(dir_path, entry)
             line(suffix) == [prefix |-> prefix, connector |-> connector,
                              entry |-> entry, suffix |-> suffix, full_path |-> full_path]
             here ==
                IF PathIsDir(f, w, full_path)
                THEN IF Collapsed(noisy, entry)
                     THEN <<line("/ ...")>>
                     ELSE <<line("/")>>
                          \o TreeWalk(noisy, f, w, full_path,
                                      Append(prefix, ExtensionOf(is_last)), depth + 1, max_depth)
                ELSE <<line("")>>
         IN here \o TreeLoop(noisy, f, w, dir_path, prefix, depth, max_depth, entries, i + 1)

TreeWalk(noisy, f, w, dir_path, prefix, depth, max_depth) ==
    IF ~DepthLeft(depth, max_depth) THEN <<>>
    ELSE LET entries == SkipHidden(Sorted(f, w, dir_path, ListDir(f, w, dir_path)))
         IN TreeLoop(noisy, f, w, dir_path, prefix, depth, max_depth, entries, 1)

\* cmd_state's generate_tree(dir_path, prefix, depth, max_depth)
generate_tree(f, w, dir_path, prefix, depth, max_depth) ==
    TreeWalk(NOISY_CLI, f, w, dir_path, prefix, depth, max_depth)

\* _get_tree's generate_lines(path, prefix, depth), max_depth from the closure
generate_lines(f, w, dir_path, prefix, depth, max_depth) ==
    TreeWalk(NOISY_MCP, f, w, dir_path, prefix, depth, max_depth)

\* The text of one line.
LineText(l) ==
    l.prefix \o <<l.connector, l.entry>> \o (IF l.suffix = "" THEN <<>> ELSE <<l.suffix>>)

LineTexts(lines) == [i \in 1..Len(lines) |-> LineText(lines[i])]

\* _get_tree(dir_path=".", max_depth=2)
get_tree(f, w, max_depth) ==
    Join(<<LF>>, LineTexts(generate_lines(f, w, <<>>, <<>>, 0, max_depth)))

DEFAULT_MAX_DEPTH == 2

----------------------------------------------------------------------------
(* The external git tool. *)

GitStates == {"absent", "norepo", "nocommits", "clean", "dirty"}

\* subprocess.check_output(["git", "status", "--short"]): [exc, out]
GitStatusShort(g) ==
    CASE g = "absent" -> [exc |-> "FileNotFoundError", out |-> <<>>]
      [] g = "norepo" -> [exc |-> "CalledProcessError", out |-> <<>>]
      [] g = "dirty" -> [exc |-> "none", out |-> <<" M a.py", LF>>]
      [] OTHER -> [exc |-> "none", out |-> <<>>]

\* subprocess.check_output(["git", "log", "-1", "--oneline"]): [exc, out]
GitLogOneline(g) ==
    CASE g = "absent" -> [exc |-> "FileNotFoundError", out |-> <<>>]
      [] g \in {"norepo", "nocommits"} -> [exc |-> "CalledProcessError", out |-> <<>>]
      [] OTHER -> [exc |-> "none", out |-> <<"1a2b3c4 first commit", LF>>]

\* The three backquotes that open and close a literal block.
FENCE == "[fence]"

\* The "Recent Changes" text of cmd_state (before its strip()).
CliChanges(g) ==
    LET st == GitStatusShort(g)
        lg == GitLogOneline(g)
    IN IF st.exc # "none" \/ lg.exc # "none" THEN NOT_A_REPO
       ELSE (IF st.out # <<>>
             THEN <<FENCE, LF>> \o st.out \o <<FENCE>>
             ELSE <<"Working tree clean.">>)
            \o <<LF, LF, "Last commit: ">> \o Strip(lg.out)

\* _get_git_status()
get_git_status(g) ==
    LET st == GitStatusShort(g)
    IN IF st.exc # "none" THEN NOT_A_REPO
       ELSE IF Strip(st.out) # <<>>
            THEN <<FENCE, LF>> \o Strip(st.out) \o <<LF, FENCE>>
            ELSE <<"Working tree clean.">>

\* datetime.now(): the clock reads second `t` of 2026-11-04 12:00.
Digit(d) == ToString(d)

\* datetime.now().isoformat(), without the microseconds
Isoformat(t) == <<"2026-11-04T12:00:", Digit(t \div 10), Digit(t % 10)>>

----------------------------------------------------------------------------
(* Initialization: cmd_init and init_context. *)

\* Whether the working directory holds nothing at all.
IsEmptyDir == fs = EmptyFs /\ work = {} /\ obs = <<>>

\* The history kept of the operation that is about to be replaced as the last one.
Remember ==
    IF result.op = "init"
    THEN [op |-> "init", fromEmpty |-> result.fromEmpty]
    ELSE [op |-> "other", fromEmpty |-> FALSE]

TemplateFiles == {SKILLS_FILE, GOALS_FILE, GITIGNORE}

\* for d in dirs: d.mkdir(parents=True, exist_ok=True)
RECURSIVE MkdirAll(_, _)
MkdirAll(f, dirs) ==
    IF dirs = <<>> THEN [ok |-> TRUE, fs |-> f]
    ELSE LET m == Mkdir(f, Head(dirs))
         IN IF m.ok THEN MkdirAll(m.fs, Tail(dirs)) ELSE m

\* if not file.exists(): file.write_text(template)
WriteIfMissingMutant(f, p, text) == IF IsDir(f, p) THEN f ELSE WriteText(f, p, text)
WriteIfMissing(f, p, text) == IF ~Exists(f, p) THEN WriteText(f, p, text) ELSE f

\* The body shared by cmd_init and init_context: [exc, fs].
InitSteps(f) ==
    LET d == MkdirAll(f, <<SKILLS_DIR, OBSERVATIONS_DIR, CACHE_DIR>>)
    IN IF ~d.ok THEN [exc |-> "FileExistsError", fs |-> d.fs]
       ELSE LET f1 == WriteIfMissing(d.fs, SKILLS_FILE, CODING_STANDARDS_TEMPLATE)
                f2 == WriteIfMissing(f1, GOALS_FILE, GOALS_TEMPLATE)
                f3 == WriteIfMissing(f2, GITIGNORE, GITIGNORE_TEXT)
            IN [exc |-> "none", fs |-> f3]

InitResult(front, r) ==
    [op |-> "init", front |-> front, exc |-> r.exc, fromEmpty |-> IsEmptyDir,
     changed |-> (r.fs # fs), delta |-> [lost |-> {}, altered |-> {}],
     overwritten |-> {p \in TemplateFiles : IsFile(fs, p) /\ r.fs[p] # fs[p]}]

cmd_init ==
    LET r == InitSteps(fs)
    IN /\ fs' = r.fs
       /\ result' = InitResult("cli", r)
       /\ before' = Remember
       /\ UNCHANGED <<work, obs, now, git>>

init_context ==
    LET r == InitSteps(fs)
    IN /\ fs' = r.fs
       /\ result' = InitResult("mcp", r)
       /\ before' = Remember
       /\ UNCHANGED <<work, obs, now, git>>

----------------------------------------------------------------------------
(* The state snapshot: cmd_state and get_workspace_state. *)

\* The exception Path.write_text raises when it cannot open the path.
WriteExc(f, p) ==
    IF IsDir(f, p) THEN "IsADirectoryError"
    ELSE IF Exists(f, Parent(p)) THEN "NotADirectoryError"
    ELSE "FileNotFoundError"

\* goals_file.read_text() if goals_file.exists() else "No goals defined."
GoalsContent(f) == IF Exists(f, GOALS_FILE) THEN ReadText(f, GOALS_FILE) ELSE NO_GOALS

\* The steps of a snapshot once its parts are computed: [exc, fs, report].
Snapshot(f, report) ==
    IF IsDir(f, GOALS_FILE) THEN [exc |-> "IsADirectoryError", fs |-> f, report |-> <<>>]
    ELSE IF ~CanWrite(f, STATE_FILE)
         THEN [exc |-> WriteExc(f, STATE_FILE), fs |-> f, report |-> <<>>]
    ELSE [exc |-> "none", fs |-> WriteText(f, STATE_FILE, report), report |-> report]

cmd_state_steps(f, w, g, t) ==
    LET tree_lines == generate_tree(f, w, <<>>, <<>>, 0, DEFAULT_MAX_DEPTH)
        structure == Join(<<LF>>, LineTexts(tree_lines))
        report == STATE_TEMPLATE(Isoformat(t), Strip(GoalsContent(f)),
                                 Strip(CliChanges(g)), Strip(structure))
    IN Snapshot(f, report)

get_workspace_state_steps(f, w, g, t) ==
    LET structure == get_tree(f, w, DEFAULT_MAX_DEPTH)
        report == STATE_TEMPLATE(Isoformat(t), Strip(GoalsContent(f)),
                                 get_git_status(g), Strip(structure))
    IN Snapshot(f, report)

StateResult(front, r, out) ==
    [op |-> "state", front |-> front, exc |-> r.exc, fromEmpty |-> IsEmptyDir,
     changed |-> (r.fs # fs), delta |-> [lost |-> {}, altered |-> {}],
     report |-> r.report, out |-> out]

\* args.print decides only whether the report is echoed as well.
cmd_state ==
    \E print \in BOOLEAN :
        LET r == cmd_state_steps(fs, work, git, now)
        IN /\ fs' = r.fs
           /\ result' = StateResult("cli", r, IF print THEN r.report ELSE <<>>)
           /\ before' = Remember
           /\ UNCHANGED <<work, obs, now, git>>

get_workspace_state ==
    LET r == get_workspace_state_steps(fs, work, git, now)
    IN /\ fs' = r.fs
       /\ result' = StateResult("mcp", r, r.report)
       /\ before' = Remember
       /\ UNCHANGED <<work, obs, now, git>>

----------------------------------------------------------------------------
(* The user, who edits, creates and removes the context files by hand. *)

USER_TEXT == <<"Ship the parser rewrite.", LF>>

RECURSIVE Under(_, _)
Under(p, q) == IF p = q THEN TRUE ELSE IF p = Root THEN FALSE ELSE Under(Parent(p), q)

EnvResult(op) ==
    [op |-> op, front |-> "user", exc |-> "none", fromEmpty |-> IsEmptyDir, changed |-> TRUE]

\* The user writes a goals, skill or .gitignore file of their own.
UserPut ==
    \E p \in TemplateFiles :
        /\ ~Exists(fs, p)
        /\ IsDir(fs, Parent(p))
        /\ fs' = [fs EXCEPT ![p] = FileNode(USER_TEXT)]
        /\ result' = EnvResult("put")
        /\ before' = Remember
        /\ UNCHANGED <<work, obs, now, git>>

\* A plain file sits where the program expects a directory.
UserBlock ==
    \E p \in {AI_DIR, MEMORY_DIR} :
        /\ ~Exists(fs, p)
        /\ fs' = [fs EXCEPT ![p] = FileNode(USER_TEXT)]
        /\ result' = EnvResult("block")
        /\ before' = Remember
        /\ UNCHANGED <<work, obs, now, git>>

UserRemove ==
    \E p \in Paths :
        /\ Exists(fs, p)
        /\ fs' = [q \in Paths |-> IF Under(q, p) THEN Absent ELSE fs[q]]
        /\ obs' = IF Under(OBSERVATIONS_DIR, p) THEN <<>> ELSE obs
        /\ result' = EnvResult("remove")
        /\ before' = Remember
        /\ UNCHANGED <<work, now, git>>

----------------------------------------------------------------------------
(* The context files: initialization and snapshots, with the user at work. *)

StartResult == [op |-> "start", front |-> "none", exc |-> "none",
                fromEmpty |-> FALSE, changed |-> FALSE,
                delta |-> [lost |-> {}, altered |-> {}]]

Init ==
    /\ fs = EmptyFs
    /\ work = {}
    /\ obs = <<>>
    /\ now = 0
    /\ git \in GitStates
    /\ result = StartResult
    /\ before = [op |-> "other", fromEmpty |-> FALSE]

Next ==
    \/ cmd_init
    \/ init_context
    \/ cmd_state
    \/ get_workspace_state
    \/ UserPut
    \/ UserBlock
    \/ UserRemove

Spec == Init /\ [][Next]_vars

----------------------------------------------------------------------------
(* Properties of initialization and of the snapshot. *)

\* C1: init is idempotent.  Whatever the file system held, an init never
\* changes the content of a goals, skill or .gitignore file that already
\* existed, and an init that directly follows an init changes nothing: the
\* directories and files after two runs are those after one run.
C1_InitIdempotent ==
    result.op = "init" =>
        /\ result.overwritten = {}
        /\ before.op = "init" => ~result.changed

\* A second init in a row has run to its end over a goals file the user wrote.
C1_Witness ==
    /\ result.op = "init"
    /\ before.op = "init"
    /\ result.exc = "none"
    /\ fs[GOALS_FILE] = FileNode(USER_TEXT)
    /\ fs[SKILLS_FILE] = FileNode(CODING_STANDARDS_TEMPLATE)

\* The part of a state report that follows the directory-structure heading.
RECURSIVE TreeSection(_)
TreeSection(content) ==
    IF content = <<>> THEN <<>>
    ELSE IF Head(content) = "## Directory Structure (Depth: 2)" THEN Tail(content)
    ELSE TreeSection(Tail(content))

\* The tokens of a tree section that are entry names.
TreeNames(section) ==
    Range(section) \ (Whitespace \cup {"|-- ", "L-- ", "|   ", "/", "/ ..."})

\* init, then state, in an empty directory that is no git repository
InitThenState ==
    /\ result.op = "state"
    /\ before.op = "init"
    /\ before.fromEmpty
    /\ git \in {"absent", "norepo"}

\* C6 as stated: after init and then state in an empty directory that is not
\* a git repository, the state file contains "No goals defined." and "Not a
\* git repository." and its tree section lists nothing but .ai and
\* .agent_memory entries.
C6_Original ==
    InitThenState =>
        /\ IsFile(fs, STATE_FILE)
        /\ Contains(fs[STATE_FILE].content, NO_GOALS)
        /\ Contains(fs[STATE_FILE].content, NOT_A_REPO)
        /\ TreeNames(TreeSection(fs[STATE_FILE].content)) \subseteq {AI_DIR, MEMORY_DIR}

\* C6, amended: after init and then state in an empty directory that is not a
\* git repository, the state file contains the goals template that init wrote
\* (and not "No goals defined."), contains "Not a git repository.", and its
\* tree section lists nothing but .ai and .agent_memory entries: it is empty,
\* both being hidden.
C6_InitThenState ==
    InitThenState =>
        /\ IsFile(fs, STATE_FILE)
        /\ Contains(fs[STATE_FILE].content, Strip(GOALS_TEMPLATE))
        /\ ~Contains(fs[STATE_FILE].content, NO_GOALS)
        /\ Contains(fs[STATE_FILE].content, NOT_A_REPO)
        /\ TreeNames(TreeSection(fs[STATE_FILE].content)) \subseteq {AI_DIR, MEMORY_DIR}
        /\ Strip(TreeSection(fs[STATE_FILE].content)) = <<>>

\* The snapshot was taken right after init in an empty directory, and saved.
C6_Witness ==
    /\ InitThenState
    /\ result.exc = "none"
    /\ IsFile(fs, STATE_FILE)
    /\ fs[GOALS_FILE] = FileNode(GOALS_TEMPLATE)

\* C7: every operation, in every reachable state of the file system and
\* whatever the external tools do, ends with a text and never with an
\* unhandled exception.
C7_NoUnhandledException == result.exc = "none"

----------------------------------------------------------------------------
(* The tree renderer over working directories of every shape. *)

\* The user creates a directory or a file somewhere in the working directory.
UserCreate ==
    \E parent \in {<<>>} \cup {e.path : e \in {x \in work : x.isdir}},
       name \in WorkNames, isdir \in BOOLEAN :
        /\ Cardinality(work) < MaxEntries
        /\ Len(parent) < MaxFsDepth
        /\ \A e \in work : e.path # Append(parent, name)
        /\ work' = work \cup {[path |-> Append(parent, name), isdir |-> isdir]}
        /\ result' = EnvResult("create")
        /\ before' = Remember
        /\ UNCHANGED <<fs, obs, now, git>>

TreeResult(front, max_depth, lines) ==
    [op |-> "tree", front |-> front, exc |-> "none", fromEmpty |-> IsEmptyDir,
     changed |-> FALSE, max_depth |-> max_depth, lines |-> lines]

\* generate_tree(".") with every max_depth, the default 2 among them
TreeCli ==
    \E max_depth \in 0..MaxFsDepth :
        /\ result' = TreeResult("cli", max_depth,
                                generate_tree(fs, work, <<>>, <<>>, 0, max_depth))
        /\ before' = Remember
        /\ UNCHANGED <<fs, work, obs, now, git>>

\* _get_tree(".", max_depth)
TreeMcp ==
    \E max_depth \in 0..MaxFsDepth :
        /\ result' = TreeResult("mcp", max_depth,
                                generate_lines(fs, work, <<>>, <<>>, 0, max_depth))
        /\ before' = Remember
        /\ UNCHANGED <<fs, work, obs, now, git>>

InitTree ==
    /\ fs \in {EmptyFs, InitSteps(EmptyFs).fs}
    /\ work = {}
    /\ obs = <<>>
    /\ now = 0
    /\ git = "norepo"
    /\ result = StartResult
    /\ before = [op |-> "other", fromEmpty |-> FALSE]

NextTree ==
    \/ UserCreate
    \/ TreeCli
    \/ TreeMcp

SpecTree == InitTree /\ [][NextTree]_vars

\* Names that start with '.'.
HiddenNames == {".agent_memory", ".ai", ".git"}

\* The paths of the entries that exist under the working directory.
ExistingPaths ==
    {e.path : e \in work} \cup {<<n>> : n \in {m \in {AI_DIR, MEMORY_DIR} : Exists(fs, m)}}

\* C9: for every directory structure and every max_depth >= 0 the renderer
\* ends, and every line it produces names an existing entry at most max_depth
\* levels below the root, indented by its level; no line names a hidden
\* entry or an entry below one.
C9_TreeDepthBound ==
    result.op = "tree" =>
        \A i \in 1..Len(result.lines) :
            LET l == result.lines[i]
            IN /\ l.full_path \in ExistingPaths
               /\ Len(l.full_path) >= 1
               /\ Len(l.full_path) <= result.max_depth
               /\ Len(l.prefix) + 1 = Len(l.full_path)
               /\ l.entry = l.full_path[Len(l.full_path)]
               /\ \A j \in 1..Len(l.full_path) : l.full_path[j] \notin HiddenNames

\* With the default depth 2 a grandchild is listed while an entry three levels
\* down and the hidden .ai exist and are left out.
C9_Witness ==
    /\ result.op = "tree"
    /\ result.max_depth = DEFAULT_MAX_DEPTH
    /\ \E e \in work : Len(e.path) = 3 /\ \A j \in 1..3 : e.path[j] \notin HiddenNames \cup NOISY_MCP
    /\ Exists(fs, AI_DIR)
    /\ \E i \in 1..Len(result.lines) : Len(result.lines[i].full_path) = 2

\* The reserved noisy names of the claim.
ReservedNames == {"node_modules", "venv", "__pycache__", "dist", "build", ".git"}

\* Whether path p lies strictly below path q.
StrictlyBelow(p, q) == Len(p) > Len(q) /\ SubSeq(p, 1, Len(q)) = q

\* C10: in both renderers a directory with a reserved noisy name contributes
\* at most one line, and no line names anything below it, at whatever depth
\* it lies and whatever depth remains.
C10_CollapsedDirectories ==
    result.op = "tree" =>
        \A e \in work :
            (e.isdir /\ e.path[Len(e.path)] \in ReservedNames) =>
                /\ Cardinality({i \in 1..Len(result.lines) :
                                    result.lines[i].full_path = e.path}) <= 1
                /\ \A i \in 1..Len(result.lines) :
                        ~StrictlyBelow(result.lines[i].full_path, e.path)

\* A build directory that has a child is shown collapsed while depth remains.
C10_Witness ==
    /\ result.op = "tree"
    /\ result.max_depth >= 2
    /\ \E e \in work : StrictlyBelow(e.path, <<"build">>)
    /\ \E i \in 1..Len(result.lines) :
            /\ result.lines[i].full_path = <<"build">>
            /\ result.lines[i].suffix = "/ ..."

----------------------------------------------------------------------------
(* Observation files.  A file name is a sequence of characters. *)

\* The characters of the model in code-point order.
CharOrder ==
    <<" ", "!", "-", ".", "/", "0", "1", "2", "3", "4", "5", "6", "7", "8", "9", "_",
      "a", "b", "c", "d", "e", "f", "g", "h", "i", "j", "k", "l", "m", "n", "o", "p",
      "q", "r", "s", "t", "u", "v", "w", "x", "y", "z">>

CharRank(c) == CHOOSE i \in 1..Len(CharOrder) : CharOrder[i] = c

\* c.isalnum(), for the characters of the model
Alnum == {CharOrder[i] : i \in 6..15} \cup {CharOrder[i] : i \in 17..Len(CharOrder)}

IsAlnum(c) == c \in Alnum

\* a < b for strings (code-point order)
RECURSIVE StrLess(_, _)
StrLess(a, b) ==
    IF b = <<>> THEN FALSE
    ELSE IF a = <<>> THEN TRUE
    ELSE IF Head(a) = Head(b) THEN StrLess(Tail(a), Tail(b))
    ELSE CharRank(Head(a)) < CharRank(Head(b))

\* datetime.now().strftime("%Y%m%d_%H%M%S")
StrftimeMutant(t) == <<"2", "0", "2", "6", "1", "1", "0", "4", "_", "1", "2", "0", "0">>
Strftime(t) ==
    <<"2", "0", "2", "6", "1", "1", "0", "4", "_", "1", "2", "0", "0",
      Digit(t \div 10), Digit(t % 10)>>

SLUG_LEN == 30

\* "".join(c for c in filename_hint if c.isalnum() or c in "_-")
KeepSafe(hint) ==
    LET safe(c) == IsAlnum(c) \/ c \in {"_", "-"}
    IN SelectSeq(hint, safe)

\* safe_hint
SafeHint(filename_hint) == SubSeq(KeepSafe(filename_hint), 1, Min(SLUG_LEN, Len(KeepSafe(filename_hint))))

\* s.replace("/", "_")
ReplaceSlash(s) == [i \in 1..Len(s) |-> IF s[i] = "/" THEN "_" ELSE s[i]]

\* cmd_slug = "_".join(cmd)[:30].replace("/", "_")
CmdSlug(cmd) ==
    LET joined == Join(<<"_">>, cmd)
    IN ReplaceSlash(SubSeq(joined, 1, Min(SLUG_LEN, Len(joined))))

EXT_LOG == <<".", "l", "o", "g">>

EXT_TXT == <<".", "t", "x", "t">>

\* f"{timestamp}_{slug}{ext}"
FileName(t, slug, ext) == Strftime(t) \o <<"_">> \o slug \o ext

\* The names in the observations directory.
ObsNames(o) == {o[i].name : i \in 1..Len(o)}

ObsIndex(o, name) == CHOOSE i \in 1..Len(o) : o[i].name = name

\* A file of the observations directory: its name and content, and what the
\* write that made it was given (the text, the clock reading, the slug).
\* Writing a file of the observations directory: an existing file keeps its
\* place in the directory and gets the new content; a new file appears at
\* place i of the listing (the order of a listing is the file system's).
PutFile(o, i, entry) ==
    IF entry.name \in ObsNames(o)
    THEN [o EXCEPT ![ObsIndex(o, entry.name)] = entry]
    ELSE SubSeq(o, 1, i - 1) \o <<entry>> \o SubSeq(o, i, Len(o))

\* What an operation did to the observation files: the names that are gone,
\* the names whose content differs, and the files a write replaced.
ObsDelta(o, o2) ==
    [lost |-> ObsNames(o) \ ObsNames(o2),
     altered |-> {n \in ObsNames(o) \cap ObsNames(o2) :
                    o[ObsIndex(o, n)].content # o2[ObsIndex(o2, n)].content}]

NoDelta == [lost |-> {}, altered |-> {}]

\* Where a directory of n files may list a new file: anywhere, or after the
\* others (a directory that lists its files in the order they were made).
AnyPlace == [n \in 0..MaxFiles |-> 1..(n + 1)]
LastPlace == [n \in 0..MaxFiles |-> {n + 1}]

NoWrite == [wrote |-> <<>>, ts |-> 0, slug |-> <<>>, replaced |-> {}]

\* The write of one observation file, as the properties see it.
WriteOf(o, name, t, slug) ==
    [wrote |-> name, ts |-> t, slug |-> slug,
     replaced |-> {o[i] : i \in {j \in 1..Len(o) : o[j].name = name}}]

\* The model stops adding observation files at MaxFiles.
RoomFor(o, name) == name \in ObsNames(o) \/ Len(o) < MaxFiles

----------------------------------------------------------------------------
(* save_observation and read_observation. *)

save_observation(content, summary, filename_hint, places) ==
    LET timestamp == now
        safe_hint == SafeHint(filename_hint)
        filename == FileName(timestamp, safe_hint, EXT_TXT)
        made == Mkdir(fs, OBSERVATIONS_DIR)
        entry == [name |-> filename, content |-> TranslateOnWrite(content),
                  given |-> content, ts |-> timestamp, slug |-> safe_hint]
    IN IF ~made.ok
       THEN /\ fs' = made.fs
            /\ obs' = obs
            /\ result' = [op |-> "save", front |-> "mcp", exc |-> "FileExistsError",
                          fromEmpty |-> IsEmptyDir, changed |-> FALSE,
                          delta |-> NoDelta, write |-> NoWrite]
       ELSE /\ RoomFor(obs, filename)
            /\ fs' = made.fs
            /\ \E i \in places[Len(obs)] :
                 /\ obs' = PutFile(obs, i, entry)
                 /\ result' = [op |-> "save", front |-> "mcp", exc |-> "none",
                               fromEmpty |-> IsEmptyDir, changed |-> TRUE,
                               delta |-> ObsDelta(obs, PutFile(obs, i, entry)),
                               write |-> WriteOf(obs, filename, timestamp, safe_hint),
                               given |-> content, summary |-> summary,
                               path |-> filename, size |-> Len(content)]

\* Contents handed to save_observation: lines ending in "\n", and lines ending
\* in "\r\n" and in a lone "\r".
Contents ==
    {<<"a", LF, "b", LF, "c", LF>>,
     <<"a", CR, LF, "b", CR, "c">>}

HINT_A30 == [i \in 1..SLUG_LEN |-> "a"]

\* Hints: plain, with characters that are dropped, and longer than the slug.
HINT_PLAIN == <<"l", "o", " ", "g", "!">>

Hints ==
    {HINT_PLAIN,
     HINT_A30,
     HINT_A30 \o <<"b">>}

SaveObservation(contents, hints, places) ==
    \E content \in contents, filename_hint \in hints :
        /\ save_observation(content, "summary", filename_hint, places)
        /\ before' = Remember
        /\ UNCHANGED <<work, now, git>>

\* A name that no observation file has.
MISSING_NAME == FileName(0, <<"n", "o", "n", "e">>, EXT_TXT)

\* read_observation(file_path) of a path in the observations directory
read_observation(name) ==
    LET found == IsDir(fs, OBSERVATIONS_DIR) /\ name \in ObsNames(obs)
    IN /\ result' = [op |-> "read_observation", front |-> "mcp", exc |-> "none",
                     fromEmpty |-> IsEmptyDir, changed |-> FALSE,
                     delta |-> NoDelta, write |-> NoWrite,
                     path |-> name, found |-> found,
                     out |-> IF found
                             THEN UniversalNewlines(obs[ObsIndex(obs, name)].content)
                             ELSE <<"Error: File not found at ">> \o name]
       /\ UNCHANGED <<fs, obs>>

ReadObservation ==
    \E name \in ObsNames(obs) \cup {MISSING_NAME} :
        /\ read_observation(name)
        /\ before' = Remember
        /\ UNCHANGED <<work, now, git>>

----------------------------------------------------------------------------
(* The command wrapper, cmd_wrap. *)

CHAR_LIMIT == 1000

LINE_LIMIT == 20

PREVIEW_LINES == 10

\* The commands that can be executed.
Executables == {<<"l", "s">>}

\* is_long
IsLong(combined) == Len(combined) > CHAR_LIMIT \/ CountLF(combined) > LINE_LIMIT

\* content = f"Command: {cmd_str}\n\n=== STDOUT ===\n{stdout}\n\n=== STDERR ===\n{stderr}"
WrapContent(cmd, stdout, stderr) ==
    <<"Command: ">> \o Join(<<" ">>, cmd) \o <<LF, LF, "=== STDOUT ===", LF>> \o stdout
    \o <<LF, LF, "=== STDERR ===", LF>> \o stderr

\* ran: the command was run and its output captured; saved: an observation
\* file was written.
WrapResult(exc, ran, force, combined, saved, path, out, delta, write) ==
    [op |-> "wrap", front |-> "cli", exc |-> exc, fromEmpty |-> IsEmptyDir,
     changed |-> saved, delta |-> delta, write |-> write, ran |-> ran,
     force |-> force, combined |-> combined, saved |-> saved, path |-> path, out |-> out]

\* cmd_wrap with args.command = cmd and args.force = force, when the command
\* (if it can be run) writes stdout and stderr and exits with returncode.
\* subprocess.run(..., text=True) hands both over with universal newlines.
cmd_wrap(cmd, force, run, places) ==
    IF cmd = <<>>
    THEN /\ result' = WrapResult("none", FALSE, force, <<>>, FALSE, <<>>,
                                 <<"Error: No command provided.">>, NoDelta, NoWrite)
         /\ UNCHANGED obs
    ELSE IF Head(cmd) \notin Executables
    THEN /\ result' = WrapResult("FileNotFoundError", FALSE, force, <<>>, FALSE,
                                 <<>>, <<>>, NoDelta, NoWrite)
         /\ UNCHANGED obs
    ELSE LET stdout == UniversalNewlines(run.stdout)
             stderr == UniversalNewlines(run.stderr)
             combined == stdout \o stderr
             is_long == IsLong(combined)
             timestamp == now
             cmd_slug == CmdSlug(cmd)
             filename == FileName(timestamp, cmd_slug, EXT_LOG)
             content == WrapContent(cmd, stdout, stderr)
             entry == [name |-> filename, content |-> TranslateOnWrite(content),
                       given |-> content, ts |-> timestamp, slug |-> cmd_slug]
             line_count == CountLF(combined)
             summary == [returncode |-> run.returncode, path |-> filename,
                         chars |-> Len(combined), lines |-> line_count,
                         preview |-> Join(<<LF>>, SliceTo(SplitLines(combined), PREVIEW_LINES))]
         IN IF is_long \/ force
            THEN IF ~IsDir(fs, OBSERVATIONS_DIR)
                 THEN /\ result' = WrapResult("FileNotFoundError", TRUE, force, combined,
                                              FALSE, <<>>, <<>>, NoDelta, NoWrite)
                      /\ UNCHANGED obs
                 ELSE /\ RoomFor(obs, filename)
                      /\ \E i \in places[Len(obs)] :
                           /\ obs' = PutFile(obs, i, entry)
                           /\ result' = WrapResult("none", TRUE, force, combined, TRUE,
                                                   filename, summary,
                                                   ObsDelta(obs, PutFile(obs, i, entry)),
                                                   WriteOf(obs, filename, timestamp, cmd_slug))
            ELSE /\ result' = WrapResult("none", TRUE, force, combined, FALSE, <<>>,
                                         combined, NoDelta, NoWrite)
                 /\ UNCHANGED obs

\* args.command as the user types it: nothing, ls, ls with a path, ls with a
\* name that gives the same slug as that path, and a command that is not installed.
Commands ==
    {<<>>,
     <<<<"l", "s">>>>,
     <<<<"l", "s">>, <<"/", "a">>>>,
     <<<<"l", "s">>, <<"_", "a">>>>,
     <<<<"n", "o", "p", "e">>>>}

CMD_LS == <<<<"l", "s">>>>

Repeat(c, n) == [i \in 1..n |-> c]

\* A command that prints little, on both streams, and fails.
SHORT_RUN == [stdout |-> <<"a", LF>>, stderr |-> <<"e", CR, LF>>, returncode |-> 2]

Text(c, n, lf) == Repeat(c, n) \o Repeat(LF, lf)

\* What a command prints, at and around both thresholds.
BoundaryRuns ==
    {SHORT_RUN,
     [stdout |-> Text("x", CHAR_LIMIT, 0), stderr |-> <<>>, returncode |-> 0],
     [stdout |-> Text("x", CHAR_LIMIT + 1, 0), stderr |-> <<>>, returncode |-> 0],
     [stdout |-> Text("x", CHAR_LIMIT - LINE_LIMIT, LINE_LIMIT), stderr |-> <<>>, returncode |-> 0],
     [stdout |-> Text("x", CHAR_LIMIT - 1, 0), stderr |-> <<"e", LF>>, returncode |-> 1],
     [stdout |-> Text("x", 0, LINE_LIMIT), stderr |-> <<>>, returncode |-> 0],
     [stdout |-> Text("x", 0, LINE_LIMIT + 1), stderr |-> <<>>, returncode |-> 0],
     [stdout |-> Text("x", 0, LINE_LIMIT) \o <<"x">>, stderr |-> <<>>, returncode |-> 0]}

CmdWrap(commands, runs, places) ==
    \E cmd \in commands, force \in BOOLEAN, run \in runs :
        /\ cmd_wrap(cmd, force, run, places)
        /\ before' = Remember
        /\ UNCHANGED <<fs, work, now, git>>

----------------------------------------------------------------------------
(* Reading an observation back, cmd_read. *)

\* An optional integer argument: <<>> is None, <<k>> is k.
NoArg == <<>>

\* if args.head: (None and 0 are both false)
Truthy(arg) == IF arg = NoArg THEN FALSE ELSE arg[1] # 0

\* OBSERVATIONS_DIR.glob(pattern) for the pattern *text*: the matching files in
\* the order the directory lists them (none when the directory does not exist).
RECURSIVE GlobContaining(_, _)
GlobContaining(o, text) ==
    IF o = <<>> THEN <<>>
    ELSE IF Contains(Head(o).name, text)
         THEN <<Head(o).name>> \o GlobContaining(Tail(o), text)
         ELSE GlobContaining(Tail(o), text)

\* matches[0]
FirstMatch(matches) == matches[1]

ReadResult(filename, head, tail, found, mode, out) ==
    [op |-> "read", front |-> "cli", exc |-> "none", fromEmpty |-> IsEmptyDir,
     changed |-> FALSE, delta |-> NoDelta, write |-> NoWrite,
     filename |-> filename, head |-> head, tail |-> tail,
     found |-> found, mode |-> mode, out |-> out]

\* cmd_read with args.filename, args.head and args.tail
cmd_read(filename, head, tail) ==
    LET exact == IsDir(fs, OBSERVATIONS_DIR) /\ filename \in ObsNames(obs)
        matches == IF IsDir(fs, OBSERVATIONS_DIR) THEN GlobContaining(obs, filename) ELSE <<>>
    IN IF ~exact /\ matches = <<>>
       THEN result' = ReadResult(filename, head, tail, <<>>, "not found",
                                 GlobContaining(obs, EXT_LOG))
       ELSE LET file_path == IF exact THEN filename ELSE FirstMatch(matches)
                content == UniversalNewlines(obs[ObsIndex(obs, file_path)].content)
                lines == SplitLines(content)
            IN IF Truthy(head)
               THEN result' = ReadResult(filename, head, tail, file_path, "head",
                                         Join(<<LF>>, SliceTo(lines, head[1])))
               ELSE IF Truthy(tail)
               THEN result' = ReadResult(filename, head, tail, file_path, "tail",
                                         Join(<<LF>>, SliceLast(lines, tail[1])))
               ELSE result' = ReadResult(filename, head, tail, file_path, "full", content)

\* What the user asks for: a part of a name, or a name in full.
Queries == {<<"l", "s">>, <<"l", "o", "g">>, <<"z", "z">>}

\* The --head and --tail values: none, zero, fewer and more than the lines of a file.
Windows == {NoArg, <<0>>, <<2>>, <<9>>}

NoWindow == {NoArg}

CmdRead(queries, heads, tails) ==
    \E filename \in queries \cup ObsNames(obs), head \in heads, tail \in tails :
        /\ cmd_read(filename, head, tail)
        /\ before' = Remember
        /\ UNCHANGED <<fs, work, obs, now, git>>

\* A second passes.
Tick ==
    /\ now < MaxTime
    /\ now' = now + 1
    /\ result' = [op |-> "tick", front |-> "none", exc |-> "none", fromEmpty |-> IsEmptyDir,
                  changed |-> FALSE, delta |-> NoDelta, write |-> NoWrite]
    /\ before' = Remember
    /\ UNCHANGED <<fs, work, obs, git>>

InitObs ==
    /\ fs = EmptyFs
    /\ work = {}
    /\ obs = <<>>
    /\ now = 0
    /\ git = "norepo"
    /\ result = StartResult
    /\ before = [op |-> "other", fromEmpty |-> FALSE]

NextObs ==
    \/ cmd_init
    \/ cmd_state
    \/ SaveObservation(Contents, Hints \ {HINT_PLAIN}, LastPlace)
    \/ ReadObservation
    \/ CmdWrap(Commands \ {CMD_LS}, {SHORT_RUN}, LastPlace)
    \/ CmdRead({<<"l", "o", "g">>}, NoWindow, NoWindow)
    \/ Tick

SpecObs == InitObs /\ [][NextObs]_vars

\* Reading back, by name and by part of a name, in full and in part.
NextRead ==
    \/ SaveObservation(Contents, {HINT_PLAIN}, AnyPlace)
    \/ CmdWrap({CMD_LS}, {SHORT_RUN}, AnyPlace)
    \/ CmdRead(Queries, Windows, Windows)
    \/ Tick

SpecRead == InitObs /\ [][NextRead]_vars

\* The wrapper at its thresholds, before and after init.
NextWrap ==
    \/ cmd_init
    \/ CmdWrap({CMD_LS}, BoundaryRuns, AnyPlace)

SpecWrap == InitObs /\ [][NextWrap]_vars

----------------------------------------------------------------------------
(* Properties of the observation store, the wrapper and the reader. *)

\* The observation file of a given name.
FileNamed(name) == obs[ObsIndex(obs, name)]

\* C2: reading an observation by the exact file name that save_observation
\* returned gives back the very content that was saved (the content of the
\* last save to that name).
C2_RoundTrip ==
    (result.op = "read_observation" /\ result.found) =>
        result.out = FileNamed(result.path).given

\* C3: for every captured output and either value of the force flag, wrap
\* writes an observation file exactly when force is set or the output is
\* long: more than 1000 characters or more than 20 lines; output that is not
\* saved is printed as it is.
C3_Threshold ==
    (result.op = "wrap" /\ result.ran) =>
        LET long == \/ Len(result.combined) > 1000
                    \/ Len(SplitLines(result.combined)) > 20
        IN /\ result.saved <=> (result.force \/ long)
           /\ result.saved => result.path \in ObsNames(obs)
           /\ ~result.saved => result.out = result.combined

\* Where the observations directory exists the threshold decides, with the
\* lines counted as the wrapper counts them: by the newline characters.
WrapThresholdWhereDirExists ==
    (result.op = "wrap" /\ result.ran /\ IsDir(fs, OBSERVATIONS_DIR)) =>
        LET long == Len(result.combined) > 1000 \/ CountLF(result.combined) > 20
        IN /\ result.saved <=> (result.force \/ long)
           /\ result.saved => result.path \in ObsNames(obs)
           /\ ~result.saved => result.out = result.combined

\* The least of a set of names in lexicographic order.
LeastName(names) == CHOOSE n \in names : \A m \in names : n = m \/ StrLess(n, m)

\* C4: read resolves a name that is exactly the name of an observation file
\* to that file; otherwise to the first, in lexicographic order, of the files
\* whose name contains the given text, whatever order the directory lists
\* them in; with no such file it reports failure and reads nothing.
C4_LookupResolution ==
    result.op = "read" =>
        LET matching == {n \in ObsNames(obs) : Contains(n, result.filename)}
        IN IF result.filename \in ObsNames(obs) THEN result.found = result.filename
           ELSE IF matching = {} THEN result.found = <<>> /\ result.mode = "not found"
           ELSE result.found = LeastName(matching)

\* C5: for a file of N lines, head k prints the first min(k, N) lines and
\* tail k the last min(k, N) lines, for every k >= 0; with both given head
\* wins; with neither the whole content is printed.
C5_WindowedRead ==
    (result.op = "read" /\ result.found # <<>>) =>
        LET content == UniversalNewlines(FileNamed(result.found).content)
            lines == SplitLines(content)
            N == Len(lines)
        IN IF result.head # NoArg
           THEN result.out = Join(<<LF>>, SubSeq(lines, 1, Min(result.head[1], N)))
           ELSE IF result.tail # NoArg
           THEN result.out = Join(<<LF>>, SubSeq(lines, N - Min(result.tail[1], N) + 1, N))
           ELSE result.out = content

====
